---- MODULE Spec2Model ----
(***************************************************************************)
(* A model of examples/world4utau/examples/quality_comparison.py:          *)
(* the metric methods of AudioQualityAnalyzer and the test loop of         *)
(* World4UtauTester.run_quality_tests.                                      *)
(*                                                                         *)
(* Numbers.  Samples are small integers.  Every metric is kept exact:      *)
(* a result is a record [kind, num, den] whose kind names the final        *)
(* floating-point conversion and whose num/den is the reduced fraction it  *)
(* is applied to:                                                          *)
(*    "dB10"     10 * log10(num / den)                                     *)
(*    "dB20"     20 * log10(num / den)                                     *)
(*    "sqrt"     sqrt(num / den)                                           *)
(*    "pct_sqrt" sqrt(num / den) * 100                                     *)
(*    "inf", "-inf", "nan"   the IEEE values                               *)
(*    "r"        a Pearson coefficient, sign(num) * sqrt(|num| / den)      *)
(* log10 and sqrt are injective and increasing, so two results are the     *)
(* same float value exactly when the records are equal.                    *)
(***************************************************************************)
EXTENDS Integers, Sequences, FiniteSets, TLC

\* ------------------------------------------------------------------ bounds
\* longest buffer handed to a one-buffer metric
MaxLen == 5
\* longest buffer handed to a two-buffer metric (calculate_snr, calculate_correlation)
MaxPairLen == 3
\* largest 100 ms window, in samples, among the scaled sample rates
MaxWindow == 2
\* sample values of a one-buffer metric and of a two-buffer metric
Samples == {-1, 0, 1, 2}
PairSamples == {-1, 0, 1}

\* ------------------------------------------------------- program constants
DEFAULT_SAMPLE_RATE == 44100
DEFAULT_FUNDAMENTAL == 440
HARMONIC_START == 2
HARMONIC_STOP == 6
\* 0.1 * sample_rate is sample_rate / WINDOWS_PER_SECOND
WINDOWS_PER_SECOND == 10

\* ------------------------------------------------------------------- state
\* one metric call
VARIABLES
    sample_rate,       \* self.sample_rate of the analyzer (0 while none exists)
    m_op,              \* the method called, "none" before the call
    audio1,            \* its first buffer argument
    audio2,            \* its second buffer argument, <<>> for a one-buffer metric
    fundamental_freq,  \* the fundamental_freq argument of calculate_thd_n
    ret,               \* what the call returned or raised
    windows,           \* the values i took in the loop of calculate_dynamic_range
    harmonics          \* the harmonics whose bin the loop of calculate_thd_n looked up

\* the variables of one metric call, but for sample_rate
mvars == <<m_op, audio1, audio2, fundamental_freq, ret, windows, harmonics>>

\* one analyzer and concurrent callers
VARIABLES
    constructed,  \* an AudioQualityAnalyzer exists
    ctor_arg,     \* the sample-rate argument of the last construction attempt
    ctor_result,  \* "none", "ok" or the exception the attempt raised
    heap,         \* buffer name -> samples
    c_pc,         \* caller -> "idle", "called", "truncated"
    c_frame,      \* caller -> the locals of its call
    c_ret         \* caller -> the result of its last call

cvars == <<constructed, ctor_arg, ctor_result, heap, c_pc, c_frame, c_ret>>

\* run_quality_tests
VARIABLES
    AUDIO_LIBS_AVAILABLE,  \* the module flag set by the imports
    test_cases,            \* the test configurations, in the order of the dict
    t_i,                   \* position of the loop in test_cases
    t_pc,                  \* "create", "run", "analyze", "cleanup", "returned", "raised"
    results,               \* the dict the loop fills: test -> entry
    created,               \* test -> what create_test_audio did
    ran,                   \* test -> how the run of the executable ended
    analyzed               \* test -> what analyze_quality did

tvars == <<AUDIO_LIBS_AVAILABLE, test_cases, t_i, t_pc, results, created, ran, analyzed>>

vars == <<sample_rate, mvars, cvars, tvars>>

\* --------------------------------------------------------------- arithmetic
Abs(x) == IF x < 0 THEN -x ELSE x

RECURSIVE Gcd(_, _)
Gcd(a, b) == IF b = 0 THEN a ELSE Gcd(b, a % b)

\* the reduced fraction num/den (den > 0) under a kind
Frac(kind, num, den) ==
    LET g == Gcd(Abs(num), den)
    IN  [kind |-> kind, num |-> num \div g, den |-> den \div g]

Inf == [kind |-> "inf", num |-> 1, den |-> 0]
NegInf == [kind |-> "-inf", num |-> -1, den |-> 0]
NaN == [kind |-> "nan", num |-> 0, den |-> 0]
\* the literal 0 of calculate_dynamic_range; as a dB difference it is 10*log10(1/1)
Zero == [kind |-> "dB10", num |-> 1, den |-> 1]
Raised(err) == [kind |-> err, num |-> 0, den |-> 0]

RECURSIVE SumSeq(_)
SumSeq(s) == IF s = <<>> THEN 0 ELSE Head(s) + SumSeq(Tail(s))

\* audio**2, elementwise
Squared(audio) == [i \in 1..Len(audio) |-> audio[i] * audio[i]]

\* audio[i : j] of Python, 0-based and end-exclusive, clipped to the buffer
Slice(audio, i, j) ==
    LET hi == IF j > Len(audio) THEN Len(audio) ELSE j
    IN  IF i >= hi THEN <<>> ELSE SubSeq(audio, i + 1, hi)

\* range(start, stop, step) of Python for step > 0, as the sequence of its values
\* (with a negative step and start <= stop it is empty)
RECURSIVE PyRange(_, _, _)
PyRange(start, stop, step) ==
    IF start >= stop \/ step <= 0 THEN <<>>
    ELSE <<start>> \o PyRange(start + step, stop, step)

BuffersOfLen(n) == [1..n -> Samples]
Buffers == UNION {BuffersOfLen(n) : n \in 1..MaxLen}
PairBuffers == UNION {[1..n -> PairSamples] : n \in 1..MaxPairLen}

\* ------------------------------------------------------------ calculate_snr
\* a variant without the zero test: numpy divides, x/0 is inf and 0/0 is nan
calculate_snr_unguarded(signal_audio, noise_audio) ==
    LET signal_sq == SumSeq(Squared(signal_audio))
        noise_sq == SumSeq(Squared(noise_audio))
    IN  IF noise_sq = 0 THEN (IF signal_sq = 0 THEN NaN ELSE Inf)
        ELSE IF signal_sq = 0 THEN NegInf
        ELSE Frac("dB10", signal_sq * Len(noise_audio), noise_sq * Len(signal_audio))

\* np.mean(x**2) of both buffers; log10(0) is -inf; 10*log10(signal_power / noise_power)
\* = 10*log10((sum s^2 * len n) / (sum n^2 * len s))
calculate_snr(signal_audio, noise_audio) ==
    LET signal_sq == SumSeq(Squared(signal_audio))
        noise_sq == SumSeq(Squared(noise_audio))
    IN  IF noise_sq = 0 THEN Inf
        ELSE IF signal_sq = 0 THEN NegInf
        ELSE Frac("dB10", signal_sq * Len(noise_audio), noise_sq * Len(signal_audio))

\* ------------------------------------------------------------ calculate_rms
calculate_rms(audio) == Frac("sqrt", SumSeq(Squared(audio)), Len(audio))

\* ----------------------------------------------------- calculate_peak_level
RECURSIVE MaxSeq(_)
MaxSeq(s) ==
    IF Len(s) = 1 THEN s[1]
    ELSE LET m == MaxSeq(Tail(s)) IN IF Head(s) >= m THEN Head(s) ELSE m

calculate_peak_level(audio) ==
    LET peak == MaxSeq([i \in 1..Len(audio) |-> Abs(audio[i])])
    IN  IF peak = 0 THEN NegInf ELSE Frac("dB20", peak, 1)

\* ---------------------------------------------------------- calculate_thd_n
\* the real and imaginary part of exp(-2*pi*i*e/4), e in 0..3
ReUnit(e) == CASE e = 0 -> 1 [] e = 1 -> 0 [] e = 2 -> -1 [] e = 3 -> 0
ImUnit(e) == CASE e = 0 -> 0 [] e = 1 -> -1 [] e = 2 -> 0 [] e = 3 -> 1

\* the buffer lengths n whose n-th roots of unity are Gaussian integers, so that
\* np.fft.fft is exact in integer arithmetic
FftLengths == {1, 2, 4}

\* np.abs(np.fft.fft(audio))[k] ** 2 for bin k in 0..n-1:
\* X[k] = sum_j audio[j] * exp(-2*pi*i*j*k/n)
BinPower(audio, k) ==
    LET n == Len(audio)
        e(j) == ((4 \div n) * j * k) % 4
        re == SumSeq([j \in 1..n |-> audio[j] * ReUnit(e(j - 1))])
        im == SumSeq([j \in 1..n |-> audio[j] * ImUnit(e(j - 1))])
    IN  re * re + im * im

\* magnitude ** 2, bin k at position k + 1
PowerSpectrum(audio) == [b \in 1..Len(audio) |-> BinPower(audio, b - 1)]

\* np.fft.fftfreq(n, 1 / self.sample_rate)[k] * n / self.sample_rate: the signed bin number
\* 0, 1, ..., (n-1)//2, -(n//2), ..., -1
FftFreqIndex(n, k) == IF k <= (n - 1) \div 2 THEN k ELSE k - n

\* np.argmin(np.abs(freqs - freq)): the first bin (0-based) nearest to freq;
\* distances are compared multiplied by n
NearestBin(n, rate, freq) ==
    LET dist(k) == Abs(FftFreqIndex(n, k) * rate - freq * n)
    IN  CHOOSE k \in 0..(n - 1) :
            /\ \A j \in 0..(n - 1) : dist(k) <= dist(j)
            /\ \A j \in 0..(k - 1) : dist(j) > dist(k)

\* the harmonics of range(2, 6) that pass `harmonic_freq < self.sample_rate / 2`
HarmonicsLookedUp(rate, freq) ==
    SelectSeq(PyRange(HARMONIC_START, HARMONIC_STOP, 1),
              LAMBDA harmonic : 2 * (freq * harmonic) < rate)

\* harmonic_power after the loop
HarmonicPower(audio, rate, freq) ==
    LET looked == HarmonicsLookedUp(rate, freq)
    IN  SumSeq([h \in 1..Len(looked) |->
            BinPower(audio, NearestBin(Len(audio), rate,
                                       freq * looked[h]))])

FundamentalPower(audio, rate, freq) ==
    BinPower(audio, NearestBin(Len(audio), rate, freq))

TotalPower(audio) == SumSeq(PowerSpectrum(audio))

\* np.sqrt(noise_and_distortion_power / fundamental_power) * 100; np.sqrt of a
\* negative number is nan
ThdPercent(noise_and_distortion_power, fundamental_power) ==
    IF noise_and_distortion_power < 0 THEN NaN
    ELSE Frac("pct_sqrt", noise_and_distortion_power, fundamental_power)

\* a variant that takes the harmonics out of the noise term
NoiseAndDistortionPower_minus_harmonics(total_power, fundamental_power, harmonic_power) ==
    total_power - fundamental_power - harmonic_power

\* noise_and_distortion_power = total_power - fundamental_power
NoiseAndDistortionPower(total_power, fundamental_power, harmonic_power) ==
    total_power - fundamental_power

calculate_thd_n(audio, rate, freq) ==
    LET fundamental_power == FundamentalPower(audio, rate, freq)
        harmonic_power == HarmonicPower(audio, rate, freq)
        total_power == TotalPower(audio)
        noise_and_distortion_power ==
            NoiseAndDistortionPower(total_power, fundamental_power, harmonic_power)
    IN  IF fundamental_power = 0 THEN Inf
        ELSE ThdPercent(noise_and_distortion_power, fundamental_power)

\* ---------------------------------------------------- calculate_correlation
\* scipy.stats.pearsonr(x, y) for len(x) = len(y): ValueError below two samples,
\* nan when either input is constant, else r = a / sqrt(b) with
\* a = n*sum(xy) - sum(x)*sum(y), b = (n*sum(xx) - sum(x)^2) * (n*sum(yy) - sum(y)^2).
\* The p-value is a function of r and n alone and is kept as that pair.
pearsonr(x, y) ==
    LET n == Len(x)
        sx == SumSeq(x)
        sy == SumSeq(y)
        a == n * SumSeq([i \in 1..n |-> x[i] * y[i]]) - sx * sy
        b == (n * SumSeq(Squared(x)) - sx * sx) * (n * SumSeq(Squared(y)) - sy * sy)
        r == IF b = 0 THEN NaN
             ELSE Frac("r", (IF a < 0 THEN -1 ELSE 1) * a * a, b)
    IN  IF n < 2 THEN Raised("ValueError")
        ELSE [kind |-> "pearsonr", correlation |-> r, p_value |-> <<r, n>>]

\* a variant that keeps the buffers whole
TruncateTo_untruncated(audio, min_len) == audio

\* audio[:min_len]
TruncateTo(audio, min_len) == Slice(audio, 0, min_len)

Min(a, b) == IF a <= b THEN a ELSE b

\* pearsonr on buffers of unequal length raises ValueError
calculate_correlation(x1, x2) ==
    LET min_len == Min(Len(x1), Len(x2))
        a1 == TruncateTo(x1, min_len)
        a2 == TruncateTo(x2, min_len)
    IN  IF Len(a1) # Len(a2) THEN Raised("ValueError") ELSE pearsonr(a1, a2)

\* -------------------------------------------------- calculate_dynamic_range
\* int(0.1 * self.sample_rate); int() rounds towards zero
WindowSize(rate) ==
    IF rate >= 0 THEN rate \div WINDOWS_PER_SECOND
    ELSE -((-rate) \div WINDOWS_PER_SECOND)

\* the values of i in `for i in range(0, len(audio) - window_size, window_size)`
WindowOffsets(audio, rate) ==
    PyRange(0, Len(audio) - WindowSize(rate), WindowSize(rate))

\* calculate_rms(audio[i : i + window_size])
WindowRms(audio, rate, i) ==
    calculate_rms(Slice(audio, i, i + WindowSize(rate)))

\* a variant that lets silent windows into the list
IsUsableRms_any(rms) == rms.num >= 0

\* `if rms > 0`
IsUsableRms(rms) == rms.num > 0

\* rms_values after the loop; 20*log10(rms) is kept as the mean square under it
RmsValues(audio, rate) ==
    LET offsets == WindowOffsets(audio, rate)
        all == [w \in 1..Len(offsets) |-> WindowRms(audio, rate, offsets[w])]
    IN  SelectSeq(all, IsUsableRms)

FracLeq(a, b) == a.num * b.den <= b.num * a.den

\* np.max(rms_values) - np.min(rms_values) in dB: 10*log10(max / min) of the mean
\* squares; 20*log10(0) is -inf, and a finite value minus -inf is inf
DbSpread(values) ==
    LET hi == CHOOSE v \in {values[i] : i \in 1..Len(values)} :
                  \A i \in 1..Len(values) : FracLeq(values[i], v)
        lo == CHOOSE v \in {values[i] : i \in 1..Len(values)} :
                  \A i \in 1..Len(values) : FracLeq(v, values[i])
    IN  IF lo.num = 0 THEN (IF hi.num = 0 THEN NaN ELSE Inf)
        ELSE Frac("dB10", hi.num * lo.den, lo.num * hi.den)

\* range() with a step of 0 raises ValueError
calculate_dynamic_range(audio, rate) ==
    LET rms_values == RmsValues(audio, rate)
    IN  IF WindowSize(rate) = 0 THEN Raised("ValueError")
        ELSE IF Len(rms_values) < 2 THEN Zero
        ELSE DbSpread(rms_values)

\* =================================================== the metrics, one call
\* A caller holds an analyzer and calls one metric on buffers of its choice.

NoResult == [kind |-> "none", num |-> 0, den |-> 0]

\* the sample rates of the analyzers: the rate __init__ sets, and rates scaled down so
\* that a buffer of a few samples holds several 100 ms windows
Rates == {WINDOWS_PER_SECOND * w : w \in 1..MaxWindow} \cup {DEFAULT_SAMPLE_RATE}

\* fundamental frequencies: below, between and on the bins of the scaled rates and of
\* the default rate, and the default of the parameter
Freqs == {1, 3, 5, DEFAULT_FUNDAMENTAL, 5000, 11025}

FftBuffers == UNION {BuffersOfLen(n) : n \in {k \in FftLengths : k <= MaxLen}}

\* the rest state of the variables a specification does not use
MetricsIdle ==
    /\ m_op = "none"
    /\ audio1 = <<>>
    /\ audio2 = <<>>
    /\ fundamental_freq = DEFAULT_FUNDAMENTAL
    /\ ret = NoResult
    /\ windows = <<>>
    /\ harmonics = <<>>

ConcIdle ==
    /\ constructed = TRUE
    /\ ctor_arg = [given |-> FALSE, value |-> 0]
    /\ ctor_result = "ok"
    /\ heap = <<>>
    /\ c_pc = <<>>
    /\ c_frame = <<>>
    /\ c_ret = <<>>

TesterIdle ==
    /\ AUDIO_LIBS_AVAILABLE = TRUE
    /\ test_cases = <<>>
    /\ t_i = 1
    /\ t_pc = "returned"
    /\ results = <<>>
    /\ created = <<>>
    /\ ran = <<>>
    /\ analyzed = <<>>

\* an analyzer exists and no call has been made
MetricsInit ==
    /\ sample_rate \in Rates
    /\ MetricsIdle
    /\ ConcIdle
    /\ TesterIdle

Call_calculate_snr ==
    /\ m_op = "none"
    /\ \E signal_audio \in PairBuffers, noise_audio \in PairBuffers :
        /\ audio1' = signal_audio
        /\ audio2' = noise_audio
        /\ ret' = calculate_snr(signal_audio, noise_audio)
    /\ m_op' = "calculate_snr"
    /\ UNCHANGED <<sample_rate, fundamental_freq, windows, harmonics, cvars, tvars>>

Call_calculate_thd_n ==
    /\ m_op = "none"
    /\ \E audio \in FftBuffers, freq \in Freqs :
        /\ audio1' = audio
        /\ fundamental_freq' = freq
        /\ harmonics' = HarmonicsLookedUp(sample_rate, freq)
        /\ ret' = calculate_thd_n(audio, sample_rate, freq)
    /\ m_op' = "calculate_thd_n"
    /\ UNCHANGED <<sample_rate, audio2, windows, cvars, tvars>>

Call_calculate_correlation ==
    /\ m_op = "none"
    /\ \E a1 \in PairBuffers, a2 \in PairBuffers :
        /\ audio1' = a1
        /\ audio2' = a2
        /\ ret' = calculate_correlation(a1, a2)
    /\ m_op' = "calculate_correlation"
    /\ UNCHANGED <<sample_rate, fundamental_freq, windows, harmonics, cvars, tvars>>

Call_calculate_rms ==
    /\ m_op = "none"
    /\ \E audio \in Buffers :
        /\ audio1' = audio
        /\ ret' = calculate_rms(audio)
    /\ m_op' = "calculate_rms"
    /\ UNCHANGED <<sample_rate, audio2, fundamental_freq, windows, harmonics, cvars, tvars>>

Call_calculate_peak_level ==
    /\ m_op = "none"
    /\ \E audio \in Buffers :
        /\ audio1' = audio
        /\ ret' = calculate_peak_level(audio)
    /\ m_op' = "calculate_peak_level"
    /\ UNCHANGED <<sample_rate, audio2, fundamental_freq, windows, harmonics, cvars, tvars>>

Call_calculate_dynamic_range ==
    /\ m_op = "none"
    /\ \E audio \in Buffers :
        /\ audio1' = audio
        /\ windows' = WindowOffsets(audio, sample_rate)
        /\ ret' = calculate_dynamic_range(audio, sample_rate)
    /\ m_op' = "calculate_dynamic_range"
    /\ UNCHANGED <<sample_rate, audio2, fundamental_freq, harmonics, cvars, tvars>>

\* the caller drops the result and is ready for its next call
NextCall ==
    /\ m_op # "none"
    /\ m_op' = "none"
    /\ audio1' = <<>>
    /\ audio2' = <<>>
    /\ fundamental_freq' = DEFAULT_FUNDAMENTAL
    /\ ret' = NoResult
    /\ windows' = <<>>
    /\ harmonics' = <<>>
    /\ UNCHANGED <<sample_rate, cvars, tvars>>

MetricsNext ==
    \/ Call_calculate_snr
    \/ Call_calculate_thd_n
    \/ Call_calculate_correlation
    \/ Call_calculate_rms
    \/ Call_calculate_peak_level
    \/ Call_calculate_dynamic_range
    \/ NextCall

SpecMetrics == MetricsInit /\ [][MetricsNext]_vars

\* ================================= one analyzer, callers running concurrently
\* The callers' buffers live in `heap`; a call holds views of them (a numpy slice is
\* a view: a buffer and a length) and reads the samples when it computes.

\* longest caller buffer of the concurrent callers
MaxHeapLen == 2
HeapSamples == {0, 1}
HeapBuffers == UNION {[1..n -> HeapSamples] : n \in 1..MaxHeapLen}
BufIds == {"x", "y"}
Callers == {1, 2}

NoArg == [given |-> FALSE, value |-> 0]
Arg(v) == [given |-> TRUE, value |-> v]
\* what a caller may pass to AudioQualityAnalyzer(...)
CtorArgs == {NoArg} \cup {Arg(v) : v \in {-1, 0, 48000}}

\* a variant of __init__ that takes the rate from its caller, unchecked
AnalyzerInit_takes_rate(arg) ==
    [raised |-> "none",
     sample_rate |-> IF arg.given THEN arg.value ELSE DEFAULT_SAMPLE_RATE]

\* AudioQualityAnalyzer(...): __init__(self) has no parameter, so a call with an
\* argument raises TypeError and makes no instance
AnalyzerInit(arg) ==
    IF arg.given THEN [raised |-> "TypeError", sample_rate |-> 0]
    ELSE [raised |-> "none", sample_rate |-> DEFAULT_SAMPLE_RATE]

NoView == [buf |-> "none", len |-> 0]
View(b, n) == [buf |-> b, len |-> n]
Whole(h, b) == View(b, Len(h[b]))
Read(h, v) == IF v.buf = "none" THEN <<>> ELSE Slice(h[v.buf], 0, v.len)

NoFrame == [op |-> "none", a1 |-> NoView, a2 |-> NoView, arg1 |-> <<>>, arg2 |-> <<>>]

\* a variant that cuts the caller's buffers down in place
Truncate_in_place(h, frame) ==
    LET min_len == Min(frame.a1.len, frame.a2.len)
    IN  [heap |-> [b \in DOMAIN h |->
                     IF b \in {frame.a1.buf, frame.a2.buf}
                     THEN Slice(h[b], 0, min_len) ELSE h[b]],
         a1 |-> View(frame.a1.buf, min_len),
         a2 |-> View(frame.a2.buf, min_len)]

\* audio1 = audio1[:min_len]; audio2 = audio2[:min_len]: the locals are rebound to
\* views, the buffers stay as they are
Truncate(h, frame) ==
    LET min_len == Min(frame.a1.len, frame.a2.len)
    IN  [heap |-> h,
         a1 |-> View(frame.a1.buf, min_len),
         a2 |-> View(frame.a2.buf, min_len)]

\* signal.spectrogram(audio, self.sample_rate, nperseg=1024) averaged over time: kept
\* as the pair it is a function of
calculate_frequency_response(audio, rate) ==
    [kind |-> "frequency_response", audio |-> audio, sample_rate |-> rate]

\* no analyzer yet (sample_rate is 0 while no instance exists); the callers hold
\* their buffers
ConcInit ==
    /\ MetricsIdle
    /\ TesterIdle
    /\ constructed = FALSE
    /\ sample_rate = 0
    /\ ctor_arg = NoArg
    /\ ctor_result = "none"
    /\ heap \in [BufIds -> HeapBuffers]
    /\ c_pc = [t \in Callers |-> "idle"]
    /\ c_frame = [t \in Callers |-> NoFrame]
    /\ c_ret = [t \in Callers |-> NoResult]

Construct ==
    /\ ~constructed
    /\ \E arg \in CtorArgs :
        LET made == AnalyzerInit(arg)
        IN  /\ ctor_arg' = arg
            /\ IF made.raised = "none"
               THEN /\ constructed' = TRUE
                    /\ sample_rate' = made.sample_rate
                    /\ ctor_result' = "ok"
               ELSE /\ ctor_result' = made.raised
                    /\ UNCHANGED <<constructed, sample_rate>>
    /\ UNCHANGED <<heap, c_pc, c_frame, c_ret, mvars, tvars>>

\* caller t enters method op with views of whole buffers
Begin(t, op, v1, v2) ==
    /\ constructed
    /\ c_pc[t] = "idle"
    /\ c_pc' = [c_pc EXCEPT ![t] = "called"]
    /\ c_frame' = [c_frame EXCEPT ![t] =
            [op |-> op, a1 |-> v1, a2 |-> v2,
             arg1 |-> Read(heap, v1), arg2 |-> Read(heap, v2)]]
    /\ c_ret' = [c_ret EXCEPT ![t] = NoResult]
    /\ UNCHANGED <<constructed, sample_rate, ctor_arg, ctor_result, heap, mvars, tvars>>

\* caller t leaves method op with its result
Finish(t, op, from, result) ==
    /\ c_pc[t] = from
    /\ c_frame[t].op = op
    /\ c_pc' = [c_pc EXCEPT ![t] = "idle"]
    /\ c_ret' = [c_ret EXCEPT ![t] = result]
    /\ UNCHANGED <<constructed, sample_rate, ctor_arg, ctor_result, heap, c_frame, mvars, tvars>>

Call_snr(t) ==
    \E b1 \in BufIds : \E b2 \in BufIds \ {b1} :
        Begin(t, "calculate_snr", Whole(heap, b1), Whole(heap, b2))

Return_snr(t) ==
    Finish(t, "calculate_snr", "called",
           calculate_snr(Read(heap, c_frame[t].a1), Read(heap, c_frame[t].a2)))

Call_thd_n(t) ==
    \E b \in BufIds :
        /\ Len(heap[b]) \in FftLengths
        /\ Begin(t, "calculate_thd_n", Whole(heap, b), NoView)

Return_thd_n(t) ==
    Finish(t, "calculate_thd_n", "called",
           calculate_thd_n(Read(heap, c_frame[t].a1), sample_rate, DEFAULT_FUNDAMENTAL))

Call_frequency_response(t) ==
    \E b \in BufIds :
        Begin(t, "calculate_frequency_response", Whole(heap, b), NoView)

Return_frequency_response(t) ==
    Finish(t, "calculate_frequency_response", "called",
           calculate_frequency_response(Read(heap, c_frame[t].a1), sample_rate))

Call_correlation(t) ==
    \E b1 \in BufIds : \E b2 \in BufIds \ {b1} :
        Begin(t, "calculate_correlation", Whole(heap, b1), Whole(heap, b2))

\* lines 103-105 of calculate_correlation
Truncate_correlation(t) ==
    /\ c_pc[t] = "called"
    /\ c_frame[t].op = "calculate_correlation"
    /\ LET cut == Truncate(heap, c_frame[t])
       IN  /\ heap' = cut.heap
           /\ c_frame' = [c_frame EXCEPT ![t].a1 = cut.a1, ![t].a2 = cut.a2]
    /\ c_pc' = [c_pc EXCEPT ![t] = "truncated"]
    /\ UNCHANGED <<constructed, sample_rate, ctor_arg, ctor_result, c_ret, mvars, tvars>>

\* lines 107-108 of calculate_correlation
Return_correlation(t) ==
    LET x == Read(heap, c_frame[t].a1)
        y == Read(heap, c_frame[t].a2)
    IN  Finish(t, "calculate_correlation", "truncated",
               IF Len(x) # Len(y) THEN Raised("ValueError") ELSE pearsonr(x, y))

Call_rms(t) ==
    \E b \in BufIds : Begin(t, "calculate_rms", Whole(heap, b), NoView)

Return_rms(t) ==
    Finish(t, "calculate_rms", "called", calculate_rms(Read(heap, c_frame[t].a1)))

Call_peak_level(t) ==
    \E b \in BufIds : Begin(t, "calculate_peak_level", Whole(heap, b), NoView)

Return_peak_level(t) ==
    Finish(t, "calculate_peak_level", "called",
           calculate_peak_level(Read(heap, c_frame[t].a1)))

Call_dynamic_range(t) ==
    \E b \in BufIds : Begin(t, "calculate_dynamic_range", Whole(heap, b), NoView)

Return_dynamic_range(t) ==
    Finish(t, "calculate_dynamic_range", "called",
           calculate_dynamic_range(Read(heap, c_frame[t].a1), sample_rate))

\* what method op returns when it runs alone on buffers arg1, arg2
RunAlone(op, arg1, arg2, rate) ==
    CASE op = "calculate_snr" -> calculate_snr(arg1, arg2)
      [] op = "calculate_thd_n" -> calculate_thd_n(arg1, rate, DEFAULT_FUNDAMENTAL)
      [] op = "calculate_frequency_response" -> calculate_frequency_response(arg1, rate)
      [] op = "calculate_correlation" -> calculate_correlation(arg1, arg2)
      [] op = "calculate_rms" -> calculate_rms(arg1)
      [] op = "calculate_peak_level" -> calculate_peak_level(arg1)
      [] op = "calculate_dynamic_range" -> calculate_dynamic_range(arg1, rate)

\* ========================================= World4UtauTester.run_quality_tests

\* number of test cases
MaxTests == 3
\* values of a test's "duration", in seconds
Durations == {-1, 0, 3}
\* lengths, in samples, of the buffer decoded from the file the executable wrote
ProcessedLengths == {0, 1, 2, 3 * DEFAULT_SAMPLE_RATE}
RunOutcomes == {"exit 0", "exit nonzero", "TimeoutExpired", "Exception"}
Tests == 1..MaxTests

\* create_test_audio: False without the audio libraries; np.linspace raises ValueError
\* for a negative number of samples, outside the try; a failing sf.write gives False
create_test_audio(libs, duration, rate, write_ok) ==
    IF ~libs THEN "False"
    ELSE IF duration * rate < 0 THEN "ValueError"
    ELSE IF write_ok THEN "True" ELSE "False"

\* run_world4utau: success is returncode == 0; a timeout and any other exception of
\* subprocess.run give False
run_world4utau_success(outcome) == outcome = "exit 0"

\* analyze_quality on the decoded buffers (a length, or -1 where load_audio returned
\* None): None without both buffers; np.max of an empty buffer (calculate_peak_level)
\* and pearsonr below two samples (calculate_correlation) raise ValueError; else the
\* report
analyze_quality(original_len, processed_len) ==
    IF original_len < 0 \/ processed_len < 0 THEN "None"
    ELSE IF original_len = 0 \/ processed_len = 0 THEN "ValueError"
    ELSE IF Min(original_len, processed_len) < 2 THEN "ValueError"
    ELSE "report"

\* World4UtauTester.__init__ has made the analyzer; run_quality_tests is entered
TesterInit ==
    /\ MetricsIdle
    /\ ConcIdle
    /\ sample_rate = DEFAULT_SAMPLE_RATE
    /\ AUDIO_LIBS_AVAILABLE \in BOOLEAN
    /\ test_cases \in [Tests -> [duration : Durations]]
    /\ t_i = 1
    /\ t_pc = "create"
    /\ results = [n \in {} |-> 0]
    /\ created = [n \in Tests |-> "-"]
    /\ ran = [n \in Tests |-> "-"]
    /\ analyzed = [n \in Tests |-> "-"]

\* `continue`, or the end of the loop body: the next test, or `return results`
Advance ==
    /\ t_i' = t_i + 1
    /\ t_pc' = IF t_i + 1 > Len(test_cases) THEN "returned" ELSE "create"

\* lines 238-244
Step_create_test_audio ==
    /\ t_pc = "create"
    /\ \E write_ok \in BOOLEAN :
        LET made == create_test_audio(AUDIO_LIBS_AVAILABLE, test_cases[t_i].duration,
                                      sample_rate, write_ok)
        IN  /\ created' = [created EXCEPT ![t_i] = made]
            /\ CASE made = "True" -> t_pc' = "run" /\ t_i' = t_i
                 [] made = "False" -> Advance
                 [] OTHER -> t_pc' = "raised" /\ t_i' = t_i
    /\ UNCHANGED <<AUDIO_LIBS_AVAILABLE, test_cases, results, ran, analyzed,
                   sample_rate, mvars, cvars>>

\* lines 247-258
Step_run_world4utau ==
    /\ t_pc = "run"
    /\ \E outcome \in RunOutcomes :
        /\ ran' = [ran EXCEPT ![t_i] = outcome]
        /\ IF run_world4utau_success(outcome)
           THEN t_pc' = "analyze" /\ t_i' = t_i
           ELSE Advance
    /\ UNCHANGED <<AUDIO_LIBS_AVAILABLE, test_cases, results, created, analyzed,
                   sample_rate, mvars, cvars>>

\* lines 261-269: the entry of the test, or the exception of analyze_quality leaving
\* run_quality_tests
Step_analyze_quality ==
    /\ t_pc = "analyze"
    /\ \E original_ok \in BOOLEAN, processed_len \in ProcessedLengths \cup {-1} :
        LET original_len == IF original_ok
                            THEN test_cases[t_i].duration * sample_rate ELSE -1
            quality_results == analyze_quality(original_len, processed_len)
        IN  /\ analyzed' = [analyzed EXCEPT ![t_i] = quality_results]
            /\ CASE quality_results = "report" ->
                       /\ results' = [n \in DOMAIN results \cup {t_i} |->
                              IF n = t_i THEN [success |-> TRUE, quality |-> TRUE]
                              ELSE results[n]]
                       /\ t_pc' = "cleanup"
                 [] quality_results = "None" ->
                       /\ results' = [n \in DOMAIN results \cup {t_i} |->
                              IF n = t_i THEN [success |-> FALSE, quality |-> FALSE]
                              ELSE results[n]]
                       /\ t_pc' = "cleanup"
                 [] OTHER ->
                       /\ t_pc' = "raised"
                       /\ UNCHANGED results
    /\ UNCHANGED <<AUDIO_LIBS_AVAILABLE, test_cases, t_i, created, ran,
                   sample_rate, mvars, cvars>>

\* lines 272-276: os.remove of both files, any exception passed over
Step_cleanup ==
    /\ t_pc = "cleanup"
    /\ Advance
    /\ UNCHANGED <<AUDIO_LIBS_AVAILABLE, test_cases, results, created, ran, analyzed,
                   sample_rate, mvars, cvars>>

TesterNext ==
    \/ Step_create_test_audio
    \/ Step_run_world4utau
    \/ Step_analyze_quality
    \/ Step_cleanup

SpecTests == TesterInit /\ [][TesterNext]_vars

ConcNext ==
    \/ Construct
    \/ \E t \in Callers : Call_snr(t)
    \/ \E t \in Callers : Return_snr(t)
    \/ \E t \in Callers : Call_thd_n(t)
    \/ \E t \in Callers : Return_thd_n(t)
    \/ \E t \in Callers : Call_frequency_response(t)
    \/ \E t \in Callers : Return_frequency_response(t)
    \/ \E t \in Callers : Call_correlation(t)
    \/ \E t \in Callers : Truncate_correlation(t)
    \/ \E t \in Callers : Return_correlation(t)
    \/ \E t \in Callers : Call_rms(t)
    \/ \E t \in Callers : Return_rms(t)
    \/ \E t \in Callers : Call_peak_level(t)
    \/ \E t \in Callers : Return_peak_level(t)
    \/ \E t \in Callers : Call_dynamic_range(t)
    \/ \E t \in Callers : Return_dynamic_range(t)

Spec == ConcInit /\ [][ConcNext]_vars

\* ================================================================== claims
AllZero(audio) == \A i \in 1..Len(audio) : audio[i] = 0
SumOfSquares(audio, first, last) ==
    SumSeq([i \in 1..(last - first + 1) |-> audio[first + i - 1] * audio[first + i - 1]])

\* C1: calculate_snr on a signal buffer and a noise buffer of different lengths fails
\* with a length-mismatch error and returns no number.
C1_SnrRejectsUnequalLengths ==
    (m_op = "calculate_snr" /\ Len(audio1) # Len(audio2))
        => ret.kind = "InputShapeError"

\* C2: calculate_dynamic_range evaluates exactly the floor(len / windowSize) full
\* windows at offsets 0, windowSize, 2*windowSize, ...; only a trailing window shorter
\* than windowSize is discarded.
C2_AllFullWindowsEvaluated ==
    m_op = "calculate_dynamic_range"
        => LET window_size == WindowSize(sample_rate)
           IN  windows = [k \in 1..(Len(audio1) \div window_size) |->
                             (k - 1) * window_size]

\* the buffer is a pure tone on the fundamental's bin: the fundamental frequency is a
\* bin frequency, and the spectrum has equal power at that bin and at its mirrored
\* negative-frequency bin and none elsewhere
PureToneOnBin ==
    LET n == Len(audio1)
        k == NearestBin(n, sample_rate, fundamental_freq)
        mirror == (n - k) % n
        power == PowerSpectrum(audio1)
    IN  /\ FftFreqIndex(n, k) * sample_rate = fundamental_freq * n
        /\ mirror # k
        /\ power[k + 1] > 0
        /\ power[mirror + 1] = power[k + 1]
        /\ \A b \in 0..(n - 1) : b \notin {k, mirror} => power[b + 1] = 0

\* C3: calculate_thd_n of a pure tone on the fundamental's bin is near 0 %
\* (here: below 1 %, sqrt(num/den) * 100 < 1).
C3_PureToneThdNearZero ==
    (m_op = "calculate_thd_n" /\ PureToneOnBin)
        => (ret.kind = "pct_sqrt" /\ ret.num * 100 * 100 < ret.den)

\* C4: silence never makes a metric fail: calculate_snr returns +inf whenever the
\* noise power is zero (also when the signal power is zero), calculate_thd_n returns
\* +inf whenever the fundamental bin's power is zero, calculate_peak_level returns
\* -inf exactly when every sample is zero; none of these raises.
C4_SilenceSentinels ==
    /\ (m_op = "calculate_snr" /\ AllZero(audio2)) => ret = Inf
    /\ (m_op = "calculate_thd_n"
            /\ PowerSpectrum(audio1)[NearestBin(Len(audio1), sample_rate,
                                                fundamental_freq) + 1] = 0)
        => ret = Inf
    /\ m_op = "calculate_peak_level" => (ret = NegInf <=> AllZero(audio1))
    /\ m_op \in {"calculate_snr", "calculate_thd_n", "calculate_peak_level"}
        => ret.kind \in {"inf", "-inf", "dB10", "dB20", "pct_sqrt"}

C4_Witness ==
    /\ m_op = "calculate_snr"
    /\ Len(audio1) = 2
    /\ AllZero(audio1)
    /\ AllZero(audio2)
    /\ ret = Inf

\* C5: calculate_correlation on buffers of lengths m and n uses exactly the first
\* min(m, n) samples of each: the result is Pearson's on the two prefixes, no error
\* comes from the lengths differing, and no sample at an index >= min(m, n) matters.
C5_CorrelationTruncates ==
    m_op = "calculate_correlation"
        => LET min_len == Min(Len(audio1), Len(audio2))
           IN  /\ ret = pearsonr(SubSeq(audio1, 1, min_len), SubSeq(audio2, 1, min_len))
               /\ ret.kind = "ValueError" => min_len < 2
               /\ \A i \in (min_len + 1)..Len(audio1), v \in PairSamples :
                      calculate_correlation([audio1 EXCEPT ![i] = v], audio2) = ret
               /\ \A i \in (min_len + 1)..Len(audio2), v \in PairSamples :
                      calculate_correlation(audio1, [audio2 EXCEPT ![i] = v]) = ret

C5_Witness ==
    /\ m_op = "calculate_correlation"
    /\ Len(audio1) = 2
    /\ Len(audio2) = 3
    /\ ret.kind = "pearsonr"
    /\ ret.correlation.kind = "r"

\* the evaluated windows (by position in `windows`) that hold a nonzero sample
UsableWindows ==
    {w \in 1..Len(windows) :
        ~AllZero(Slice(audio1, windows[w], windows[w] + WindowSize(sample_rate)))}
WindowEnergy(w) ==
    SumOfSquares(audio1, windows[w] + 1, windows[w] + WindowSize(sample_rate))

\* C8: calculate_dynamic_range returns max minus min of the dB values of the evaluated
\* windows whose RMS is nonzero; zero-RMS windows contribute nothing, and with fewer
\* than two usable windows the result is 0.
C8_DynamicRangeOverUsableWindows ==
    m_op = "calculate_dynamic_range"
        => IF Cardinality(UsableWindows) < 2 THEN ret = Zero
           ELSE \E hi \in UsableWindows, lo \in UsableWindows :
                   /\ \A w \in UsableWindows :
                          WindowEnergy(lo) <= WindowEnergy(w)
                          /\ WindowEnergy(w) <= WindowEnergy(hi)
                   /\ ret = Frac("dB10", WindowEnergy(hi), WindowEnergy(lo))

C8_Witness ==
    /\ m_op = "calculate_dynamic_range"
    /\ Len(windows) = 3
    /\ Cardinality(UsableWindows) = 2
    /\ ret.kind = "dB10"
    /\ ret # Zero

\* C9: in calculate_thd_n only the harmonics 2x to 5x strictly below sampleRate/2 are
\* looked up, and the result is sqrt((total - fundamental) / fundamental) * 100 (or
\* +inf for a zero fundamental): two spectra with equal total and fundamental power
\* give the same result whatever power sits in the harmonic bins.
C9_HarmonicsHaveNoEffect ==
    m_op = "calculate_thd_n"
        => LET total == TotalPower(audio1)
               fundamental == FundamentalPower(audio1, sample_rate, fundamental_freq)
           IN  /\ \A h \in 2..5 :
                      (\E j \in 1..Len(harmonics) : harmonics[j] = h)
                          <=> 2 * h * fundamental_freq < sample_rate
               /\ \A j \in 1..Len(harmonics) : harmonics[j] \in 2..5
               /\ ret = IF fundamental = 0 THEN Inf
                        ELSE Frac("pct_sqrt", total - fundamental, fundamental)
               /\ \A other \in BuffersOfLen(Len(audio1)) :
                      (/\ TotalPower(other) = total
                       /\ FundamentalPower(other, sample_rate, fundamental_freq)
                              = fundamental)
                          => calculate_thd_n(other, sample_rate, fundamental_freq) = ret

C9_Witness ==
    /\ m_op = "calculate_thd_n"
    /\ Len(harmonics) \in 1..3
    /\ HarmonicPower(audio1, sample_rate, fundamental_freq) > 0
    /\ ret.kind = "pct_sqrt"
    /\ \E other \in BuffersOfLen(Len(audio1)) :
           /\ TotalPower(other) = TotalPower(audio1)
           /\ FundamentalPower(other, sample_rate, fundamental_freq)
                  = FundamentalPower(audio1, sample_rate, fundamental_freq)
           /\ HarmonicPower(other, sample_rate, fundamental_freq)
                  # HarmonicPower(audio1, sample_rate, fundamental_freq)

C7_Stateless ==
    /\ [](\A t \in Callers :
            (c_pc[t] = "idle" /\ c_frame[t].op # "none")
                => c_ret[t] = RunAlone(c_frame[t].op, c_frame[t].arg1,
                                       c_frame[t].arg2, DEFAULT_SAMPLE_RATE))
    /\ [][/\ heap' = heap
          /\ constructed => (constructed' /\ sample_rate' = sample_rate)]_vars

\* one caller is inside calculate_correlation, past its truncation of the longer
\* buffer, while the other has returned from a metric on that same buffer
C7_Witness ==
    \E t \in Callers, u \in Callers :
        /\ t # u
        /\ c_pc[t] = "truncated"
        /\ c_frame[t].a1.len < Len(heap[c_frame[t].a1.buf])
        /\ c_pc[u] = "idle"
        /\ c_frame[u].op = "calculate_rms"
        /\ c_frame[u].a1.buf = c_frame[t].a1.buf
        /\ c_ret[u].kind = "sqrt"

Finished == t_pc \in {"returned", "raised"}

\* C10: the map run_quality_tests returns has an entry for a test exactly when its
\* audio was created and the executable's run succeeded; the entry has success = true
\* and a report if analyze_quality returned one, success = false and none otherwise;
\* and a failure in one test never keeps the later tests from being processed.
C10_EveryTestProcessed ==
    Finished =>
        /\ t_pc = "returned"
        /\ \A n \in Tests :
            /\ created[n] # "-"
            /\ n \in DOMAIN results <=> (created[n] = "True" /\ ran[n] = "exit 0")
            /\ n \in DOMAIN results =>
                   IF analyzed[n] = "report"
                   THEN results[n] = [success |-> TRUE, quality |-> TRUE]
                   ELSE results[n] = [success |-> FALSE, quality |-> FALSE]

\* what holds of the map when run_quality_tests does return
ReturnedMapMatchesStages ==
    t_pc = "returned" =>
        \A n \in Tests :
            /\ created[n] # "-"
            /\ n \in DOMAIN results <=> (created[n] = "True" /\ ran[n] = "exit 0")
            /\ n \in DOMAIN results =>
                   IF analyzed[n] = "report"
                   THEN results[n] = [success |-> TRUE, quality |-> TRUE]
                   ELSE results[n] = [success |-> FALSE, quality |-> FALSE]

====
